---- MODULE Spec2Model ----
(***************************************************************************)
(* Kernel retention and cleanup of vkm-v2.py: KernelManager               *)
(* (list_installed_kernels, get_kernel_info, identify_kernels_to_remove,  *)
(* remove_kernels, cleanup_old_kernels) together with the package         *)
(* inventory, the apt child process and update-grub it drives.            *)
(*                                                                         *)
(* A version string is held as the pair of its digit runs (what           *)
(* re.findall(r'\d+', x) returns) and the rest of its text; the empty     *)
(* string has no digit runs and no text.  Time is counted in days.        *)
(***************************************************************************)
EXTENDS Integers, Sequences, FiniteSets, TLC

\* ---------------------------------------------------------------- bounds
MaxKeepLatest == 1      \* policy.keep_latest ranges over 0..MaxKeepLatest
MaxKeepDays == 1        \* policy.keep_days ranges over 0..MaxKeepDays
MaxMinKernels == 2      \* policy.min_kernels ranges over 1..MaxMinKernels
MaxTargets == 1         \* longest list handed directly to remove_kernels
MaxEnvChanges == 1      \* out-of-band installs/removals after construction

\* ------------------------------------------------------- version strings
EmptyStr == [nums |-> <<>>, sfx |-> ""]
V61 == [nums |-> <<6, 1>>, sfx |-> "-cloud"]
V510 == [nums |-> <<5, 10>>, sfx |-> "-cloud"]
V59 == [nums |-> <<5, 9>>, sfx |-> "-cloud"]

Versions == {V61, V510, V59}

\* two more package names: one whose digits equal those of V510, one with a
\* single run of digits
V510g == [nums |-> <<5, 10>>, sfx |-> "-generic"]
V5 == [nums |-> <<5>>, sfx |-> "-rc"]

ListingVersions == Versions \cup {V510g, V5}

\* dpkg -l prints its rows ordered by package name (text order).
PkgNameOrder == <<V5, V510, V510g, V59, V61>>

\* datetime.now(), in days
Now == 2

NoInstallTime == [known |-> FALSE, t |-> 0]
Stamp(d) == [known |-> TRUE, t |-> d]

\* what dpkg -s reports as Install-Time for each package: one installed
\* today, one without the field, one installed on the day the longest
\* keep_days window begins
InstallTime(v) ==
    IF v = V61 THEN Stamp(Now)
    ELSE IF v = V510 THEN NoInstallTime
    ELSE Stamp(Now - MaxKeepDays)

Inventories == {[v \in S |-> InstallTime(v)] : S \in SUBSET Versions}

\* KernelCleanupPolicy
Policies ==
    [keep_latest : 0..MaxKeepLatest,
     keep_days : 0..MaxKeepDays,
     dry_run : BOOLEAN,
     exclude_current : BOOLEAN,
     exclude_fallback : BOOLEAN,
     min_kernels : 1..MaxMinKernels]

\* KernelCleanupPolicy()
DefaultPolicy ==
    [keep_latest |-> 2, keep_days |-> 30, dry_run |-> FALSE,
     exclude_current |-> TRUE, exclude_fallback |-> TRUE, min_kernels |-> 1]

\* ------------------------------------------------------- list operations
InSeq(x, s) == \E i \in 1..Len(s) : s[i] = x

SeqSet(s) == {s[i] : i \in 1..Len(s)}

Min(a, b) == IF a < b THEN a ELSE b

\* Python's list comparison a < b
RECURSIVE LexLess(_, _)
LexLess(a, b) ==
    IF a = <<>> THEN b # <<>>
    ELSE IF b = <<>> THEN FALSE
    ELSE IF Head(a) # Head(b) THEN Head(a) < Head(b)
    ELSE LexLess(Tail(a), Tail(b))

\* key=lambda x: [int(part) for part in re.findall(r'\d+', x)]
SortKey(x) == x.nums

\* x goes behind every element whose key is not smaller than its own
RECURSIVE InsertDesc(_, _)
InsertDesc(x, s) ==
    IF s = <<>> THEN <<x>>
    ELSE IF LexLess(SortKey(Head(s)), SortKey(x)) THEN <<x>> \o s
    ELSE <<Head(s)>> \o InsertDesc(x, Tail(s))

\* x goes behind every element whose key is not larger than its own
RECURSIVE InsertAsc(_, _)
InsertAsc(x, s) ==
    IF s = <<>> THEN <<x>>
    ELSE IF LexLess(SortKey(x), SortKey(Head(s))) THEN <<x>> \o s
    ELSE <<Head(s)>> \o InsertAsc(x, Tail(s))

RECURSIVE SortOldestFirst(_)
SortOldestFirst(s) ==
    IF s = <<>> THEN <<>>
    ELSE InsertAsc(s[Len(s)], SortOldestFirst(SubSeq(s, 1, Len(s) - 1)))

\* a stable ascending sort followed by list.reverse()
SortAscendingReversed(s) ==
    LET asc == SortOldestFirst(s)
    IN [i \in 1..Len(asc) |-> asc[Len(asc) + 1 - i]]

\* kernels.sort(key=..., reverse=True): stable, largest key first
RECURSIVE SortNewestFirst(_)
SortNewestFirst(s) ==
    IF s = <<>> THEN <<>>
    ELSE InsertDesc(s[Len(s)], SortNewestFirst(SubSeq(s, 1, Len(s) - 1)))

\* if version not in kernels: kernels.append(version)
RECURSIVE Dedup(_)
Dedup(s) ==
    IF s = <<>> THEN <<>>
    ELSE LET front == Dedup(SubSeq(s, 1, Len(s) - 1))
         IN IF InSeq(s[Len(s)], front) THEN front ELSE Append(front, s[Len(s)])

\* the versions of the "ii linux-image-*" rows of dpkg -l, in row order
DpkgListing(inv) ==
    LET Installed(v) == v \in DOMAIN inv
    IN SelectSeq(PkgNameOrder, Installed)

\* KernelManager.list_installed_kernels; dpkg_ok = FALSE is CalledProcessError
list_installed_kernels(inv, dpkg_ok) ==
    IF dpkg_ok THEN SortNewestFirst(Dedup(DpkgListing(inv))) ELSE <<>>

\* KernelManager._get_fallback_kernel
get_fallback_kernel(inv, dpkg_ok, current) ==
    LET kernels == list_installed_kernels(inv, dpkg_ok)
    IN IF Len(kernels) > 1 THEN kernels[2] ELSE current

\* install_date as get_kernel_info leaves it: "" without a readable
\* Install-Time, else the strftime text of the timestamp
EmptyDate == [kind |-> "empty", t |-> 0]
Strftime(stamp) == [kind |-> "date", t |-> stamp]
InstallDate(inv, v) ==
    IF v \in DOMAIN inv /\ inv[v].known THEN Strftime(inv[v].t) ELSE EmptyDate

\* KernelManager.get_kernel_info
get_kernel_info(v, inv, current, fallback) ==
    [version |-> v,
     is_current |-> (v = current),
     install_date |-> InstallDate(inv, v),
     is_fallback |-> (v = fallback)]

KernelsInfo(all_kernels, inv, current, fallback) ==
    [i \in 1..Len(all_kernels) |-> get_kernel_info(all_kernels[i], inv, current, fallback)]

\* ------------------------------------------------ the retention computation
\* KeepCurrent with the exclude_current rule left out
KeepCurrentSkipped(kernels_info, policy) == <<>>

\* lines 272-276: keep the first record flagged is_current
KeepCurrent(kernels_info, policy) ==
    LET IsCurrent(k) == k.is_current
        flagged == SelectSeq(kernels_info, IsCurrent)
    IN IF policy.exclude_current /\ flagged # <<>> THEN <<flagged[1].version>> ELSE <<>>

\* KeepFallback with the exclude_fallback rule left out
KeepFallbackSkipped(keep, policy, fallback) == keep

\* lines 278-280: the cached fallback is appended as it is, when not empty
KeepFallback(keep, policy, fallback) ==
    IF policy.exclude_fallback /\ fallback # EmptyStr THEN Append(keep, fallback) ELSE keep

\* lines 282-286: the first latest_to_keep records, each unless already kept
RECURSIVE KeepLatestFrom(_, _, _, _)
KeepLatestFrom(keep, kernels_info, i, n) ==
    IF i > n THEN keep
    ELSE KeepLatestFrom(
             IF InSeq(kernels_info[i].version, keep) THEN keep
             ELSE Append(keep, kernels_info[i].version),
             kernels_info, i + 1, n)

KeepLatest(keep, kernels_info, policy) ==
    LET latest_to_keep == Min(policy.keep_latest, Len(kernels_info))
    IN KeepLatestFrom(keep, kernels_info, 1, Min(latest_to_keep, Len(kernels_info)))

\* InsideWindow taking a record without a date for one installed now
InsideWindowUndatedAsNow(k, cutoff_date) ==
    k.install_date.kind # "date" \/ k.install_date.t > cutoff_date

\* lines 292-298: "Unknown" is skipped, strptime raises on anything that is
\* no date text and the bare except drops the record
InsideWindow(k, cutoff_date) ==
    /\ k.install_date.kind # "unknown"
    /\ k.install_date.kind = "date"
    /\ k.install_date.t > cutoff_date

\* lines 288-298
RECURSIVE KeepRecentFrom(_, _, _, _)
KeepRecentFrom(keep, kernels_info, i, cutoff_date) ==
    IF i > Len(kernels_info) THEN keep
    ELSE KeepRecentFrom(
             IF InsideWindow(kernels_info[i], cutoff_date)
                /\ ~InSeq(kernels_info[i].version, keep)
             THEN Append(keep, kernels_info[i].version)
             ELSE keep,
             kernels_info, i + 1, cutoff_date)

\* KeepRecent replacing the keep list by the kernels inside the window
KeepRecentReplacing(keep, kernels_info, policy) ==
    IF policy.keep_days > 0
    THEN KeepRecentFrom(<<>>, kernels_info, 1, Now - policy.keep_days)
    ELSE keep

KeepRecent(keep, kernels_info, policy) ==
    IF policy.keep_days > 0
    THEN KeepRecentFrom(keep, kernels_info, 1, Now - policy.keep_days)
    ELSE keep

\* lines 300-307: the floor compares len(keep_kernels), a list length
RECURSIVE TopUpFrom(_, _, _, _)
TopUpFrom(keep, kernels_info, i, min_kernels) ==
    IF i > Len(kernels_info) \/ Len(keep) >= min_kernels THEN keep
    ELSE TopUpFrom(
             IF InSeq(kernels_info[i].version, keep) THEN keep
             ELSE Append(keep, kernels_info[i].version),
             kernels_info, i + 1, min_kernels)

\* TopUp starting at the second catalog entry
TopUpFromSecond(keep, kernels_info, policy) ==
    IF Len(keep) < policy.min_kernels
    THEN TopUpFrom(keep, kernels_info, 2, policy.min_kernels)
    ELSE keep

\* TopUp walking the catalog from its oldest entry
TopUpOldestFirst(keep, kernels_info, policy) ==
    LET n == Len(kernels_info)
        oldest_first == [i \in 1..n |-> kernels_info[n + 1 - i]]
    IN IF Len(keep) < policy.min_kernels
       THEN TopUpFrom(keep, oldest_first, 1, policy.min_kernels)
       ELSE keep

TopUp(keep, kernels_info, policy) ==
    IF Len(keep) < policy.min_kernels
    THEN TopUpFrom(keep, kernels_info, 1, policy.min_kernels)
    ELSE keep

\* lines 309-313
RemoveList(kernels_info, keep) ==
    LET NotKept(k) == ~InSeq(k.version, keep)
    IN SelectSeq(kernels_info, NotKept)

\* keep_kernels as it stands at line 299, before the min_kernels top-up
KeepBeforeTopUp(kernels_info, p, fallback) ==
    KeepRecent(
        KeepLatest(
            KeepFallback(KeepCurrent(kernels_info, p), p, fallback),
            kernels_info, p),
        kernels_info, p)

\* keep_kernels as it stands at line 308
KeepKernels(kernels_info, policy, fallback) ==
    TopUp(
        KeepRecent(
            KeepLatest(
                KeepFallback(KeepCurrent(kernels_info, policy), policy, fallback),
                kernels_info, policy),
            kernels_info, policy),
        kernels_info, policy)

\* KernelManager.identify_kernels_to_remove, with the keep list it built
identify_kernels_to_remove(inv, dpkg_ok, current, fallback, policy) ==
    LET all_kernels == list_installed_kernels(inv, dpkg_ok)
        kernels_info == KernelsInfo(all_kernels, inv, current, fallback)
        keep == KeepKernels(kernels_info, policy, fallback)
    IN [catalog |-> all_kernels,
        keep |-> keep,
        remove |-> RemoveList(kernels_info, keep)]

Versions_of(infos) == [i \in 1..Len(infos) |-> infos[i].version]

\* ------------------------------------------------------ configuration store
\* The JSON value of ~/.vkm/config.json as far as the cleanup policy goes:
\* kind says whether the file exists ("missing"), is no JSON text ("garbage",
\* json.load raises JSONDecodeError), is JSON but no object ("array") or is an
\* object; cp_kind says whether the object has the key cleanup_policy
\* ("absent"), has it with the value null or has it with an object as value;
\* cp is that object, a mapping from some of the field names to integers.
Fields == {"keep_latest", "keep_days", "min_kernels"}

EmptyDict == [f \in {} |-> 0]

ConfigValue(kind, cp_kind, cp) == [kind |-> kind, cp_kind |-> cp_kind, cp |-> cp]

\* VKMConfig.default_config, lines 62-67
DefaultConfig ==
    ConfigValue("object", "dict",
                [f \in Fields |-> CASE f = "keep_latest" -> 2
                                    [] f = "keep_days" -> 30
                                    [] f = "min_kernels" -> 1])

\* VKMConfig._load_config: the value it returns and what the file holds
\* afterwards
load_config(file) ==
    IF file.kind \in {"missing", "garbage"}
    THEN [config |-> DefaultConfig, store |-> DefaultConfig]
    ELSE [config |-> file, store |-> file]

\* dict.get(key, default)
Get(d, key, default) == IF key \in DOMAIN d THEN d[key] ELSE default

\* whether config.get("cleanup_policy", {}).get(...) evaluates: VKMConfig.get
\* calls self.config.get and the result's get, which only a dict has
PolicyLoads(cfg) == cfg.kind = "object" /\ cfg.cp_kind # "null"

\* lines 785-789 and 1356-1360: the policy built from the loaded config
LoadPolicy(cfg) ==
    LET cleanup_policy == IF cfg.cp_kind = "dict" THEN cfg.cp ELSE EmptyDict
    IN [keep_latest |-> Get(cleanup_policy, "keep_latest", 2),
        keep_days |-> Get(cleanup_policy, "keep_days", 30),
        dry_run |-> FALSE,
        exclude_current |-> TRUE,
        exclude_fallback |-> TRUE,
        min_kernels |-> Get(cleanup_policy, "min_kernels", 1)]

\* no configure_cleanup_policy call has returned yet
NoEdit == EmptyDict

\* ------------------------------------------------------------------ state
VARIABLES
    inventory,          \* installed linux-image packages: version -> Install-Time
    env_changes,        \* out-of-band changes of the inventory so far
    HAS_RICH,           \* whether the rich import succeeded (lines 25-41)
    current_kernel,     \* KernelManager.current_kernel ("" when uname failed)
    fallback_kernel,    \* KernelManager.fallback_kernel, set at construction
    pc,                 \* "idle", "confirm" (in Confirm.ask), "polling" (at the loop
                        \* test), "advanced" (between its two updates), "returned"
    op,                 \* the operation called: "cleanup", "remove", "remove_specific"
    policy,             \* argument of cleanup_old_kernels
    list_ok,            \* whether dpkg -l succeeded in this call
    catalog,            \* all_kernels of this call
    keep_kernels,       \* keep_kernels of this call
    kernels_to_remove,  \* the records identify_kernels_to_remove returned
    answer,             \* the operator's answer to Confirm.ask: "none", "yes", "no"
    kernels,            \* argument of remove_kernels
    dry_run,            \* argument of remove_kernels
    proc,               \* the apt child: "none", "running", "exited"
    returncode,         \* its exit status once exited
    stderr_text,        \* what it wrote to stderr
    apt_started,        \* Popen(apt remove) succeeded in this call
    grub_started,       \* update-grub was run in this call
    grub_failed,        \* update-grub exited non-zero in this call
    result,             \* "None" while running, "True", "False", "NameError"
    log,                \* the logger calls of this call
    store,              \* what ~/.vkm/config.json holds
    config,             \* VKMConfig.config, what json.load or the default gave
    session,            \* the process: "none", "interactive", "cleanup", "crashed", "exited"
    edit,               \* the values configure_cleanup_policy returned last
    exit_status,        \* the exit status of the process once session = "exited"
    child_output,       \* how much the apt child writes to its stdout before it exits
    pipe_fill,          \* how much of it sits unread in the stdout pipe
    completed,          \* progress.tasks[task].completed
    warning             \* the current-kernel warning: "none", "acknowledged", "declined"

sys_vars == <<inventory, env_changes, HAS_RICH, current_kernel, fallback_kernel, child_output>>
cleanup_vars == <<policy, list_ok, catalog, keep_kernels, kernels_to_remove, answer,
                  warning>>
remove_vars == <<kernels, dry_run, apt_started, grub_started, grub_failed, completed>>
proc_vars == <<proc, returncode, stderr_text, pipe_fill>>
ui_vars == <<store, config, session, edit, exit_status>>
vars == <<sys_vars, pc, op, cleanup_vars, remove_vars, proc_vars, result, log, ui_vars>>

\* total of the progress task (line 353) and the value the loop holds it at
\* while the child runs (lines 358-359)
ProgressTotal == 100
ProgressCap == 90

ExitCodes == {0, 1}
StderrTexts == {"E: Could not get lock", "E: Unable to locate package"}

Entry(level, msg, arg) == [level |-> level, msg |-> msg, arg |-> arg]

\* the lists remove_specific_kernel and other direct callers may pass
RECURSIVE ListsUpTo(_)
ListsUpTo(n) ==
    IF n = 0 THEN {<<>>}
    ELSE LET shorter == ListsUpTo(n - 1)
         IN shorter \cup {Append(l, v) : l \in shorter, v \in Versions}

Init ==
    /\ inventory \in Inventories
    /\ env_changes = 0
    /\ HAS_RICH \in BOOLEAN
    /\ current_kernel \in Versions \cup {EmptyStr}
    /\ \E dpkg_ok \in BOOLEAN :
           fallback_kernel = get_fallback_kernel(inventory, dpkg_ok, current_kernel)
    /\ child_output = 0
    /\ pc = "idle"
    /\ op = "none"
    /\ policy = DefaultPolicy
    /\ list_ok = TRUE
    /\ catalog = <<>>
    /\ keep_kernels = <<>>
    /\ kernels_to_remove = <<>>
    /\ answer = "none"
    /\ warning = "none"
    /\ kernels = <<>>
    /\ dry_run = FALSE
    /\ proc = "none"
    /\ returncode = 0
    /\ stderr_text = ""
    /\ pipe_fill = 0
    /\ apt_started = FALSE
    /\ grub_started = FALSE
    /\ grub_failed = FALSE
    /\ completed = 0
    /\ result = "None"
    /\ log = <<>>
    /\ store = DefaultConfig
    /\ config = DefaultConfig
    /\ session = "interactive"
    /\ edit = NoEdit
    /\ exit_status = 0

\* ---------------------------------------------------------- remove_kernels
\* RemoveKernelsEntry with the dry_run test of line 329 left out
RemoveKernelsEntryNoDryTest(ks, dry, popen_ok, rich) ==
    LET removing == Entry("INFO", "Removing kernels", IF dry THEN "[DRY RUN] " ELSE "")
        executing == Entry("DEBUG", "Executing", "apt remove -y")
    IN IF ks = <<>>
       THEN [next |-> "returned", result |-> "True", started |-> FALSE,
             log |-> <<Entry("INFO", "No kernels to remove", "")>>]
       ELSE IF ~popen_ok
       THEN [next |-> "returned", result |-> "False", started |-> FALSE,
             log |-> <<removing, executing,
                       Entry("ERROR", "Error during kernel removal", "OSError")>>]
       ELSE IF ~rich
       THEN [next |-> "returned", result |-> "False", started |-> TRUE,
             log |-> <<removing, executing,
                       Entry("ERROR", "Error during kernel removal", "NameError")>>]
       ELSE [next |-> "polling", result |-> "None", started |-> TRUE,
             log |-> <<removing, executing>>]

\* lines 317-351: remove_kernels up to its polling loop.  popen_ok = FALSE is
\* Popen raising; without rich the name Progress is unbound and line 345
\* raises NameError after the child was started; both land in line 376.
RemoveKernelsEntry(ks, dry, popen_ok, rich) ==
    LET removing == Entry("INFO", "Removing kernels", IF dry THEN "[DRY RUN] " ELSE "")
        executing == Entry("DEBUG", "Executing", "apt remove -y")
    IN IF ks = <<>>
       THEN [next |-> "returned", result |-> "True", started |-> FALSE,
             log |-> <<Entry("INFO", "No kernels to remove", "")>>]
       ELSE IF dry
       THEN [next |-> "returned", result |-> "True", started |-> FALSE,
             log |-> <<removing, Entry("INFO", "Dry run - no packages will be removed", "")>>]
       ELSE IF ~popen_ok
       THEN [next |-> "returned", result |-> "False", started |-> FALSE,
             log |-> <<removing, executing,
                       Entry("ERROR", "Error during kernel removal", "OSError")>>]
       ELSE IF ~rich
       THEN [next |-> "returned", result |-> "False", started |-> TRUE,
             log |-> <<removing, executing,
                       Entry("ERROR", "Error during kernel removal", "NameError")>>]
       ELSE [next |-> "polling", result |-> "None", started |-> TRUE,
             log |-> <<removing, executing>>]

\* lines 362-378: after the loop saw the child exit.  grub_ok = FALSE is
\* subprocess.run(["update-grub"], check=True) raising CalledProcessError.
RemoveKernelsFinish(rc, err, grub_ok) ==
    IF rc = 0
    THEN LET done == <<Entry("INFO", "Kernel removal completed successfully", ""),
                       Entry("INFO", "Updating GRUB configuration...", "")>>
         IN IF grub_ok
            THEN [result |-> "True", grub |-> TRUE, grub_err |-> FALSE,
                  log |-> Append(done, Entry("INFO", "GRUB configuration updated", ""))]
            ELSE [result |-> "False", grub |-> TRUE, grub_err |-> TRUE,
                  log |-> Append(done, Entry("ERROR", "Error during kernel removal",
                                             "CalledProcessError"))]
    ELSE [result |-> "False", grub |-> FALSE, grub_err |-> FALSE,
          log |-> <<Entry("ERROR", "Kernel removal failed", err)>>]

\* the frame of remove_kernels from its entry to the loop or to its return
RunRemoveKernels(ks, dry, popen_ok, log0) ==
    LET e == RemoveKernelsEntry(ks, dry, popen_ok, HAS_RICH)
    IN /\ kernels' = ks
       /\ dry_run' = dry
       /\ pc' = e.next
       /\ result' = e.result
       /\ log' = log0 \o e.log
       /\ apt_started' = e.started
       /\ grub_started' = FALSE
       /\ grub_failed' = FALSE
       /\ completed' = 0
       /\ proc' = IF e.started THEN "running" ELSE "none"
       /\ returncode' = 0
       /\ stderr_text' = ""
       /\ pipe_fill' = 0

\* a direct call of KernelManager.remove_kernels (lines 999, 1020)
RemoveKernelsCall(ks, dry, popen_ok) ==
    /\ pc = "idle"
    /\ op' = "remove"
    /\ policy' = DefaultPolicy
    /\ list_ok' = TRUE
    /\ catalog' = <<>>
    /\ keep_kernels' = <<>>
    /\ kernels_to_remove' = <<>>
    /\ answer' = "none"
    /\ warning' = "none"
    /\ RunRemoveKernels(ks, dry, popen_ok, <<>>)
    /\ UNCHANGED <<sys_vars, ui_vars>>

\* the apt child exits: status 0 removed every target, any other status left
\* whatever part of them it had removed
ProcExit(rc, err, removed) ==
    /\ proc = "running"
    /\ pipe_fill = child_output
    /\ removed \subseteq (SeqSet(kernels) \cap DOMAIN inventory)
    /\ IF rc = 0
       THEN err = "" /\ removed = SeqSet(kernels) \cap DOMAIN inventory
       ELSE err \in StderrTexts
    /\ proc' = "exited"
    /\ returncode' = rc
    /\ stderr_text' = err
    /\ pipe_fill' = pipe_fill
    /\ inventory' = [v \in DOMAIN inventory \ removed |-> inventory[v]]
    /\ UNCHANGED <<env_changes, HAS_RICH, current_kernel, fallback_kernel, child_output, pc, op,
                   cleanup_vars, remove_vars, result, log, ui_vars>>

\* lines 353-378: process.poll() returned the exit status
AfterLoop(grub_ok) ==
    /\ pc = "polling"
    /\ proc = "exited"
    /\ LET f == RemoveKernelsFinish(returncode, stderr_text, grub_ok)
       IN /\ result' = f.result
          /\ log' = log \o f.log
          /\ grub_started' = f.grub
          /\ grub_failed' = f.grub_err
    /\ completed' = ProgressTotal
    /\ pc' = "returned"
    /\ UNCHANGED <<sys_vars, op, cleanup_vars, kernels, dry_run, apt_started, proc_vars,
                   ui_vars>>

\* ------------------------------------------------------ cleanup_old_kernels
\* Proceeds with the prompt's answer ignored
ProceedsUnasked(policy_dry_run, confirmed) == TRUE

\* line 412: "if not policy.dry_run and not Confirm.ask(...)": return False
Proceeds(policy_dry_run, confirmed) == policy_dry_run \/ confirmed

\* lines 380-412: cleanup_old_kernels up to the prompt, the call of
\* remove_kernels or its return.  Without rich the name Table is unbound and
\* line 389 raises NameError out of the method.
CleanupEntry(to_remove, p, dpkg_ok, rich) ==
    LET listing == IF dpkg_ok THEN <<>>
                   ELSE <<Entry("ERROR", "Failed to list kernels", "CalledProcessError")>>
    IN IF to_remove = <<>>
       THEN [next |-> "returned", result |-> "True",
             log |-> Append(listing, Entry("INFO", "No kernels match cleanup criteria", ""))]
       ELSE IF ~rich
       THEN [next |-> "returned", result |-> "NameError", log |-> listing]
       ELSE IF Proceeds(p.dry_run, FALSE)
       THEN [next |-> "remove", result |-> "None", log |-> listing]
       ELSE [next |-> "confirm", result |-> "None", log |-> listing]

\* KernelManager.cleanup_old_kernels is called (lines 862, 964, 1362)
CleanupCall(p, dpkg_ok) ==
    /\ pc = "idle"
    /\ LET r == identify_kernels_to_remove(inventory, dpkg_ok, current_kernel,
                                           fallback_kernel, p)
           e == CleanupEntry(r.remove, p, dpkg_ok, HAS_RICH)
       IN /\ op' = "cleanup"
          /\ policy' = p
          /\ list_ok' = dpkg_ok
          /\ catalog' = r.catalog
          /\ keep_kernels' = r.keep
          /\ kernels_to_remove' = r.remove
          /\ answer' = "none"
          /\ warning' = "none"
          /\ IF e.next = "remove"
             THEN RunRemoveKernels(Versions_of(r.remove), p.dry_run, TRUE, e.log)
             ELSE /\ pc' = e.next
                  /\ result' = e.result
                  /\ log' = e.log
                  /\ kernels' = <<>>
                  /\ dry_run' = FALSE
                  /\ apt_started' = FALSE
                  /\ grub_started' = FALSE
                  /\ grub_failed' = FALSE
                  /\ completed' = 0
                  /\ proc' = "none"
                  /\ returncode' = 0
                  /\ stderr_text' = ""
                  /\ pipe_fill' = 0
    /\ UNCHANGED <<sys_vars, ui_vars>>

\* lines 412-420: the operator answers "Proceed with kernel removal?"
ConfirmAnswer(confirmed, popen_ok) ==
    /\ pc = "confirm"
    /\ answer' = IF confirmed THEN "yes" ELSE "no"
    /\ warning' = warning
    /\ IF Proceeds(policy.dry_run, confirmed)
       THEN RunRemoveKernels(Versions_of(kernels_to_remove), policy.dry_run, popen_ok, log)
       ELSE /\ pc' = "returned"
            /\ result' = "False"
            /\ log' = Append(log, Entry("INFO", "Kernel removal cancelled by user", ""))
            /\ UNCHANGED <<remove_vars, proc_vars>>
    /\ UNCHANGED <<sys_vars, op, policy, list_ok, catalog, keep_kernels, kernels_to_remove,
                   ui_vars>>

\* the caller takes the return value and goes back to its menu loop
\* (lines 853-864, 1145): the frame of the call is gone.  A child that
\* remove_kernels left running has exited before the next menu choice.
Dismiss ==
    /\ pc = "returned"
    /\ proc # "running"
    /\ pc' = "idle"
    /\ op' = "none"
    /\ policy' = DefaultPolicy
    /\ list_ok' = TRUE
    /\ catalog' = <<>>
    /\ keep_kernels' = <<>>
    /\ kernels_to_remove' = <<>>
    /\ answer' = "none"
    /\ warning' = "none"
    /\ dry_run' = FALSE
    /\ apt_started' = FALSE
    /\ grub_started' = FALSE
    /\ grub_failed' = FALSE
    /\ completed' = 0
    /\ result' = "None"
    /\ log' = <<>>
    /\ kernels' = <<>>
    /\ proc' = "none"
    /\ returncode' = 0
    /\ stderr_text' = ""
    /\ pipe_fill' = 0
    /\ UNCHANGED <<sys_vars, ui_vars>>

\* ------------------------------------------------------------- environment
\* a kernel package is installed by other means while the tool waits for input
EnvInstall(v) ==
    /\ pc \in {"idle", "confirm"}
    /\ env_changes < MaxEnvChanges
    /\ v \notin DOMAIN inventory
    /\ inventory' = [w \in DOMAIN inventory \cup {v} |->
                        IF w = v THEN InstallTime(v) ELSE inventory[w]]
    /\ env_changes' = env_changes + 1
    /\ UNCHANGED <<HAS_RICH, current_kernel, fallback_kernel, child_output, pc, op, cleanup_vars,
                   remove_vars, proc_vars, result, log, ui_vars>>

\* a kernel package is removed by other means while the tool waits for input
EnvRemove(v) ==
    /\ pc \in {"idle", "confirm"}
    /\ env_changes < MaxEnvChanges
    /\ v \in DOMAIN inventory
    /\ inventory' = [w \in DOMAIN inventory \ {v} |-> inventory[w]]
    /\ env_changes' = env_changes + 1
    /\ UNCHANGED <<HAS_RICH, current_kernel, fallback_kernel, child_output, pc, op, cleanup_vars,
                   remove_vars, proc_vars, result, log, ui_vars>>

Next ==
    \/ \E p \in Policies, dpkg_ok \in BOOLEAN : CleanupCall(p, dpkg_ok)
    \/ \E confirmed \in BOOLEAN, popen_ok \in BOOLEAN : ConfirmAnswer(confirmed, popen_ok)
    \/ \E ks \in ListsUpTo(MaxTargets), dry \in BOOLEAN, popen_ok \in BOOLEAN :
           RemoveKernelsCall(ks, dry, popen_ok)
    \/ \E rc \in ExitCodes, err \in StderrTexts \cup {""}, removed \in SUBSET Versions :
           ProcExit(rc, err, removed)
    \/ \E grub_ok \in BOOLEAN : AfterLoop(grub_ok)
    \/ Dismiss
    \/ \E v \in Versions : EnvInstall(v)
    \/ \E v \in Versions : EnvRemove(v)

Spec == Init /\ [][Next]_vars

\* ------------------------------------------------- the engine on its own
\* The retention computation as the dry-run preview exercises it (menu option
\* 4, lines 859-862: policy.dry_run = True), over packages without
\* Install-Time, installed yesterday, installed today and stamped tomorrow,
\* and over every value the fields of KernelCleanupPolicy accept:
\* the dataclass of lines 46-54 has no __post_init__ and no caller checks the
\* fields.
EngineTimes == {NoInstallTime, Stamp(Now - 1), Stamp(Now)}

\* the oldest package may also carry an Install-Time ahead of the clock
EngineTimesOf(v) == IF v = V59 THEN EngineTimes \cup {Stamp(Now + 1)} ELSE EngineTimes

EngineInventories ==
    UNION {{inv \in [S -> EngineTimes \cup {Stamp(Now + 1)}] :
               \A v \in S : inv[v] \in EngineTimesOf(v)} : S \in SUBSET Versions}

EnginePolicies ==
    [keep_latest : -1..MaxKeepLatest, keep_days : -1..MaxKeepDays,
     dry_run : {TRUE}, exclude_current : BOOLEAN, exclude_fallback : BOOLEAN,
     min_kernels : 0..MaxMinKernels]

InitEngine ==
    /\ inventory \in EngineInventories
    /\ env_changes = 0
    /\ HAS_RICH = TRUE
    /\ current_kernel \in Versions \cup {EmptyStr}
    /\ \E dpkg_ok \in BOOLEAN :
           fallback_kernel = get_fallback_kernel(inventory, dpkg_ok, current_kernel)
    /\ child_output = 0
    /\ pc = "idle"
    /\ op = "none"
    /\ policy = DefaultPolicy
    /\ list_ok = TRUE
    /\ catalog = <<>>
    /\ keep_kernels = <<>>
    /\ kernels_to_remove = <<>>
    /\ answer = "none"
    /\ warning = "none"
    /\ kernels = <<>>
    /\ dry_run = FALSE
    /\ proc = "none"
    /\ returncode = 0
    /\ stderr_text = ""
    /\ pipe_fill = 0
    /\ apt_started = FALSE
    /\ grub_started = FALSE
    /\ grub_failed = FALSE
    /\ completed = 0
    /\ result = "None"
    /\ log = <<>>
    /\ store = DefaultConfig
    /\ config = DefaultConfig
    /\ session = "interactive"
    /\ edit = NoEdit
    /\ exit_status = 0

NextEngine ==
    \/ \E p \in EnginePolicies : CleanupCall(p, TRUE)
    \/ Dismiss

SpecEngine == InitEngine /\ [][NextEngine]_vars

\* ------------------------------------------------ the tool as a process
\* One run of the tool: VKMInterface() loads the configuration, then either
\* the `cleanup` command or the interactive console works with it.  The
\* packages carry no Install-Time field, as on a stock dpkg.
KeepLatestChoices == {1, 3}
KeepDaysChoices == {7, 30}
MinKernelsChoices == {1, 2}

\* the integers a hand-written or earlier saved cleanup_policy may hold
StoredValues == {1, 3}

NoFile == ConfigValue("missing", "absent", EmptyDict)
Unloaded == ConfigValue("unloaded", "absent", EmptyDict)

Stores ==
    {NoFile, ConfigValue("garbage", "absent", EmptyDict),
     ConfigValue("array", "absent", EmptyDict),
     ConfigValue("object", "absent", EmptyDict),
     ConfigValue("object", "null", EmptyDict)}
    \cup {ConfigValue("object", "dict", d) :
             d \in UNION {[S -> StoredValues] : S \in SUBSET Fields}}

InitCli ==
    /\ inventory = [v \in Versions |-> NoInstallTime]
    /\ env_changes = 0
    /\ HAS_RICH \in BOOLEAN
    /\ current_kernel \in Versions
    /\ fallback_kernel = get_fallback_kernel(inventory, TRUE, current_kernel)
    /\ child_output = 0
    /\ pc = "idle"
    /\ op = "none"
    /\ policy = DefaultPolicy
    /\ list_ok = TRUE
    /\ catalog = <<>>
    /\ keep_kernels = <<>>
    /\ kernels_to_remove = <<>>
    /\ answer = "none"
    /\ warning = "none"
    /\ kernels = <<>>
    /\ dry_run = FALSE
    /\ proc = "none"
    /\ returncode = 0
    /\ stderr_text = ""
    /\ pipe_fill = 0
    /\ apt_started = FALSE
    /\ grub_started = FALSE
    /\ grub_failed = FALSE
    /\ completed = 0
    /\ result = "None"
    /\ log = <<>>
    /\ store \in Stores
    /\ config = Unloaded
    /\ session = "none"
    /\ edit = NoEdit
    /\ exit_status = 0

\* VKMInterface.__init__, lines 721-722: VKMConfig() loads the file and
\* VKMLogger calls config.get("log_level", "info"), which raises
\* AttributeError out of the constructor when json.load gave no dict
LoadConfig(cmd) ==
    /\ session = "none"
    /\ LET l == load_config(store)
       IN /\ store' = l.store
          /\ config' = l.config
          /\ IF l.config.kind = "object"
             THEN session' = cmd /\ exit_status' = exit_status
             ELSE session' = "crashed" /\ exit_status' = 1
    /\ UNCHANGED <<sys_vars, pc, op, cleanup_vars, remove_vars, proc_vars, result, log,
                   edit>>

\* VKMInterface.configure_cleanup_policy with the operator's three answers:
\* the rich branch saves them through config.set, the branch without rich
\* (lines 826-829) only returns them
ConfigurePolicy(keep_latest, keep_days, min_kernels) ==
    /\ session = "interactive"
    /\ pc = "idle"
    /\ IF ~PolicyLoads(config)
       THEN /\ session' = "crashed"
            /\ exit_status' = 1
            /\ UNCHANGED <<store, config, edit>>
       ELSE LET chosen == [f \in Fields |-> CASE f = "keep_latest" -> keep_latest
                                               [] f = "keep_days" -> keep_days
                                               [] f = "min_kernels" -> min_kernels]
                saved == [config EXCEPT !.cp_kind = "dict", !.cp = chosen]
            IN /\ edit' = chosen
               /\ config' = IF HAS_RICH THEN saved ELSE config
               /\ store' = IF HAS_RICH THEN saved ELSE store
               /\ UNCHANGED <<session, exit_status>>
    /\ UNCHANGED <<sys_vars, pc, op, cleanup_vars, remove_vars, proc_vars, result, log>>

\* the operator leaves the console (line 1187); the process ends
SessionEnd ==
    /\ session = "interactive"
    /\ pc = "idle"
    /\ session' = "none"
    /\ config' = Unloaded
    /\ UNCHANGED <<sys_vars, pc, op, cleanup_vars, remove_vars, proc_vars, result, log,
                   store, edit, exit_status>>

\* the `cleanup` command, lines 1353-1362
CliCleanup(dpkg_ok) ==
    /\ session = "cleanup"
    /\ pc = "idle"
    /\ op = "none"
    /\ IF PolicyLoads(config)
       THEN CleanupCall(LoadPolicy(config), dpkg_ok)
       ELSE /\ session' = "crashed"
            /\ exit_status' = 1
            /\ UNCHANGED <<sys_vars, pc, op, cleanup_vars, remove_vars, proc_vars, result,
                           log, store, config, edit>>

\* line 1362: the value cleanup_old_kernels returned is dropped and the
\* command returns, so the process exits 0; an exception that left
\* cleanup_old_kernels ends it with status 1
CliExit ==
    /\ session = "cleanup"
    /\ pc = "returned"
    /\ session' = "exited"
    /\ exit_status' = IF result = "NameError" THEN 1 ELSE 0
    /\ UNCHANGED <<sys_vars, pc, op, cleanup_vars, remove_vars, proc_vars, result, log,
                   store, config, edit>>

NextCli ==
    \/ \E cmd \in {"cleanup", "interactive"} : LoadConfig(cmd)
    \/ \E keep_latest \in KeepLatestChoices, keep_days \in KeepDaysChoices,
          min_kernels \in MinKernelsChoices :
           ConfigurePolicy(keep_latest, keep_days, min_kernels)
    \/ SessionEnd
    \/ \E dpkg_ok \in BOOLEAN : CliCleanup(dpkg_ok)
    \/ \E confirmed \in BOOLEAN, popen_ok \in BOOLEAN : ConfirmAnswer(confirmed, popen_ok)
    \/ \E rc \in ExitCodes, err \in StderrTexts \cup {""}, removed \in SUBSET Versions :
           ProcExit(rc, err, removed)
    \/ \E grub_ok \in BOOLEAN : AfterLoop(grub_ok)
    \/ CliExit

SpecCli == InitCli /\ [][NextCli]_vars

\* ---------------------------------------------------------------- listing
\* The listing over package names with equal and with shorter digit runs.
ListingInventories == {[v \in S |-> NoInstallTime] : S \in SUBSET ListingVersions}

ListingPolicies ==
    [keep_latest : 0..MaxKeepLatest, keep_days : {0}, dry_run : {TRUE},
     exclude_current : BOOLEAN, exclude_fallback : {TRUE},
     min_kernels : 1..MaxMinKernels]

InitListing ==
    /\ inventory \in ListingInventories
    /\ env_changes = 0
    /\ HAS_RICH = TRUE
    /\ current_kernel \in DOMAIN inventory
    /\ fallback_kernel = get_fallback_kernel(inventory, TRUE, current_kernel)
    /\ child_output = 0
    /\ pc = "idle"
    /\ op = "none"
    /\ policy = DefaultPolicy
    /\ list_ok = TRUE
    /\ catalog = <<>>
    /\ keep_kernels = <<>>
    /\ kernels_to_remove = <<>>
    /\ answer = "none"
    /\ warning = "none"
    /\ kernels = <<>>
    /\ dry_run = FALSE
    /\ proc = "none"
    /\ returncode = 0
    /\ stderr_text = ""
    /\ pipe_fill = 0
    /\ apt_started = FALSE
    /\ grub_started = FALSE
    /\ grub_failed = FALSE
    /\ completed = 0
    /\ result = "None"
    /\ log = <<>>
    /\ store = DefaultConfig
    /\ config = DefaultConfig
    /\ session = "interactive"
    /\ edit = NoEdit
    /\ exit_status = 0

NextListing ==
    \/ \E p \in ListingPolicies, dpkg_ok \in BOOLEAN : CleanupCall(p, dpkg_ok)
    \/ Dismiss

SpecListing == InitListing /\ [][NextListing]_vars

\* ------------------------------------------------- the removal in progress
\* remove_kernels between Popen and its return, with the child's output and
\* the progress task, and remove_specific_kernel in front of it.
MaxOutput == 2          \* the most the apt child writes, in pipe-buffer units
PipeCapacity == 1       \* what the stdout pipe holds while nobody reads it

\* the child writes to its stdout (stdout=subprocess.PIPE, line 339); write()
\* blocks while the pipe is full, and lines 353-359 never read from it
ChildWrite ==
    /\ proc = "running"
    /\ pipe_fill < child_output
    /\ pipe_fill < PipeCapacity
    /\ pipe_fill' = pipe_fill + 1
    /\ UNCHANGED <<sys_vars, pc, op, cleanup_vars, remove_vars, proc, returncode,
                   stderr_text, result, log, ui_vars>>

\* lines 355-357: poll() returned None; sleep, then update(task, advance=1)
PollAdvance ==
    /\ pc = "polling"
    /\ proc = "running"
    /\ completed' = completed + 1
    /\ pc' = "advanced"
    /\ UNCHANGED <<sys_vars, op, cleanup_vars, kernels, dry_run, apt_started, grub_started,
                   grub_failed, proc_vars, result, log, ui_vars>>

\* lines 358-359: a second update puts the task back to 90 if it is beyond
PollClamp ==
    /\ pc = "advanced"
    /\ completed' = IF completed > ProgressCap THEN ProgressCap ELSE completed
    /\ pc' = "polling"
    /\ UNCHANGED <<sys_vars, op, cleanup_vars, kernels, dry_run, apt_started, grub_started,
                   grub_failed, proc_vars, result, log, ui_vars>>

\* info.get("status", ""): the records of get_kernel_info have no such key
StatusText(info) == IF "status" \in DOMAIN info THEN info.status ELSE ""

\* lines 992 and 1013: whether the current-kernel warning is asked
WarningAsked(info, rich) ==
    IF rich THEN info.is_current ELSE StatusText(info) = "CURRENT"

\* VKMInterface.remove_specific_kernel: the operator picks entry `choice` of
\* the listing, answers the warning with `ack` if it is asked, and the
\* removal prompt with `confirmed`
RemoveSpecificKernel(choice, ack, confirmed, dpkg_ok, popen_ok) ==
    /\ pc = "idle"
    /\ session = "interactive"
    /\ LET listed == list_installed_kernels(inventory, dpkg_ok)
       IN /\ choice \in 1..Len(listed) \/ (listed = <<>> /\ choice = 1)
          /\ op' = "remove_specific"
          /\ policy' = DefaultPolicy
          /\ list_ok' = dpkg_ok
          /\ catalog' = listed
          /\ keep_kernels' = <<>>
          /\ kernels_to_remove' = <<>>
          /\ IF listed = <<>>
             THEN /\ answer' = "none"
                  /\ warning' = "none"
                  /\ pc' = "returned"
                  /\ result' = "None"
                  /\ log' = <<Entry("ERROR", "No kernels found", "")>>
                  /\ UNCHANGED <<remove_vars, proc_vars>>
             ELSE LET kernel_to_remove == listed[choice]
                      info == get_kernel_info(kernel_to_remove, inventory, current_kernel,
                                              fallback_kernel)
                      asked == WarningAsked(info, HAS_RICH)
                  IN IF asked /\ ~ack
                     THEN /\ answer' = "none"
                          /\ warning' = "declined"
                          /\ pc' = "returned"
                          /\ result' = "None"
                          /\ log' = <<>>
                          /\ UNCHANGED <<remove_vars, proc_vars>>
                     ELSE /\ warning' = IF asked THEN "acknowledged" ELSE "none"
                          /\ answer' = IF confirmed THEN "yes" ELSE "no"
                          /\ IF confirmed
                             THEN RunRemoveKernels(<<kernel_to_remove>>, FALSE, popen_ok, <<>>)
                             ELSE /\ pc' = "returned"
                                  /\ result' = "None"
                                  /\ log' = <<>>
                                  /\ UNCHANGED <<remove_vars, proc_vars>>
    /\ UNCHANGED <<sys_vars, ui_vars>>

InitRemoval ==
    /\ inventory = [v \in Versions |-> NoInstallTime]
    /\ env_changes = 0
    /\ HAS_RICH \in BOOLEAN
    /\ current_kernel = V61
    /\ fallback_kernel = get_fallback_kernel(inventory, TRUE, current_kernel)
    /\ child_output \in 0..MaxOutput
    /\ pc = "idle"
    /\ op = "none"
    /\ policy = DefaultPolicy
    /\ list_ok = TRUE
    /\ catalog = <<>>
    /\ keep_kernels = <<>>
    /\ kernels_to_remove = <<>>
    /\ answer = "none"
    /\ warning = "none"
    /\ kernels = <<>>
    /\ dry_run = FALSE
    /\ proc = "none"
    /\ returncode = 0
    /\ stderr_text = ""
    /\ pipe_fill = 0
    /\ apt_started = FALSE
    /\ grub_started = FALSE
    /\ grub_failed = FALSE
    /\ completed = 0
    /\ result = "None"
    /\ log = <<>>
    /\ store = DefaultConfig
    /\ config = DefaultConfig
    /\ session = "interactive"
    /\ edit = NoEdit
    /\ exit_status = 0

ChildExits ==
    \E rc \in ExitCodes, err \in StderrTexts \cup {""}, removed \in SUBSET Versions :
        ProcExit(rc, err, removed)

LoopEnds == \E grub_ok \in BOOLEAN : AfterLoop(grub_ok)

NextRemoval ==
    \/ \E choice \in 1..Cardinality(Versions), ack \in BOOLEAN, confirmed \in BOOLEAN,
          dpkg_ok \in BOOLEAN, popen_ok \in BOOLEAN :
           RemoveSpecificKernel(choice, ack, confirmed, dpkg_ok, popen_ok)
    \/ \E ks \in ListsUpTo(MaxTargets), dry \in BOOLEAN, popen_ok \in BOOLEAN :
           RemoveKernelsCall(ks, dry, popen_ok)
    \/ ChildWrite
    \/ PollAdvance
    \/ PollClamp
    \/ ChildExits
    \/ LoopEnds
    \/ Dismiss

SpecRemoval == InitRemoval /\ [][NextRemoval]_vars

\* the child and the interpreter keep running: a write that is possible
\* happens, a child that can exit exits, the loop takes its next step
FairRemoval ==
    /\ SpecRemoval
    /\ WF_vars(ChildWrite)
    /\ WF_vars(ChildExits)
    /\ WF_vars(PollAdvance)
    /\ WF_vars(PollClamp)
    /\ WF_vars(LoopEnds)

\* ------------------------------------------------------------------ claims
\* a cleanup_old_kernels call has computed its keep and remove lists
Computed == op = "cleanup"

RemoveVersions == SeqSet(Versions_of(kernels_to_remove))

\* the result value and the severity of the last message of a call
Outcome(res, lg) == [result |-> res, severity |-> lg[Len(lg)].level]

\* C1: the keep set and the versions of the remove list are disjoint and their
\* union is exactly the set of catalog versions.
C1_Partition ==
    Computed =>
        /\ SeqSet(keep_kernels) \cap RemoveVersions = {}
        /\ SeqSet(keep_kernels) \cup RemoveVersions = SeqSet(catalog)

\* C2: the number of distinct catalog versions that are not in the remove list
\* is at least min(policy.min_kernels, |catalog|).
C2_MinKernelsFloor ==
    (Computed /\ policy.min_kernels >= 1) =>
        Cardinality(SeqSet(catalog) \ RemoveVersions)
            >= Min(policy.min_kernels, Len(catalog))

\* C3: with exactly one kernel installed the remove list is empty, whatever
\* the policy, the running kernel and the cached fallback kernel are.
C3_LastKernelKept ==
    (Computed /\ policy.min_kernels >= 1 /\ Len(catalog) = 1) => kernels_to_remove = <<>>

\* C4: with policy.exclude_current no record flagged is_current is in the
\* remove list.
C4_CurrentNotRemoved ==
    (Computed /\ policy.exclude_current) =>
        \A i \in 1..Len(kernels_to_remove) : ~kernels_to_remove[i].is_current

\* the running kernel is in the catalog, no other rule protects it and
\* something else is removed
C4_Witness ==
    /\ Computed
    /\ policy.exclude_current
    /\ ~policy.exclude_fallback
    /\ policy.keep_latest = 0
    /\ policy.keep_days = 0
    /\ policy.min_kernels = 1
    /\ Len(catalog) > 1
    /\ InSeq(current_kernel, catalog)
    /\ catalog[1] # current_kernel
    /\ InSeq(current_kernel, keep_kernels)
    /\ kernels_to_remove # <<>>

\* C5: with policy.exclude_fallback no record flagged is_fallback is in the
\* remove list.
C5_FallbackNotRemoved ==
    (Computed /\ policy.exclude_fallback) =>
        \A i \in 1..Len(kernels_to_remove) : ~kernels_to_remove[i].is_fallback

\* the fallback kernel is in the catalog, no other rule protects it and
\* something else is removed
C5_Witness ==
    /\ Computed
    /\ policy.exclude_fallback
    /\ ~policy.exclude_current
    /\ policy.keep_latest = 0
    /\ policy.keep_days = 0
    /\ policy.min_kernels = 1
    /\ Len(catalog) > 1
    /\ InSeq(fallback_kernel, catalog)
    /\ catalog[1] # fallback_kernel
    /\ InSeq(fallback_kernel, keep_kernels)
    /\ kernels_to_remove # <<>>

\* C6: in a non-dry-run remove_kernels call with a non-empty list update-grub
\* runs only after apt exited with status 0; when apt exits non-zero
\* update-grub is not run, the call returns False and the stderr text of apt is
\* logged as it is.
C6_RemovalFailureSurfaced ==
    (op # "none" /\ ~dry_run /\ kernels # <<>>) =>
        /\ grub_started => (proc = "exited" /\ returncode = 0)
        /\ (apt_started /\ proc = "exited" /\ returncode # 0) =>
               /\ ~grub_started
               /\ pc = "returned" =>
                      /\ result = "False"
                      /\ InSeq(Entry("ERROR", "Kernel removal failed", stderr_text), log)

\* a dry-run call is in progress or has returned
DryRunCall(o, p, d) == (o = "cleanup" /\ p.dry_run) \/ (o = "remove" /\ d)

\* C7: a dry-run remove_kernels returns True for every list and starts neither
\* apt nor update-grub; no step of a dry-run call or of a dry-run cleanup
\* changes the installed set.
C7_DryRunTouchesNothing ==
    /\ [](DryRunCall(op, policy, dry_run) =>
              /\ ~apt_started
              /\ ~grub_started
              /\ proc # "running"
              /\ (op = "remove" => (pc = "returned" /\ result = "True")))
    /\ [][DryRunCall(op', policy', dry_run') => inventory' = inventory]_vars

\* a dry-run cleanup whose remove list is not empty has returned True
C7_Witness ==
    /\ op = "cleanup"
    /\ policy.dry_run
    /\ dry_run
    /\ kernels # <<>>
    /\ kernels = Versions_of(kernels_to_remove)
    /\ pc = "returned"
    /\ result = "True"

\* C8: in a cleanup_old_kernels run without dry_run and with a non-empty
\* remove list apt is started only after the operator answered yes in that
\* run; after a no nothing is removed, update-grub is not run and the run
\* returns False.
C8_ConfirmBeforeRemoval ==
    (op = "cleanup" /\ ~policy.dry_run /\ kernels_to_remove # <<>>) =>
        /\ (apt_started \/ proc = "running" \/ grub_started) => answer = "yes"
        /\ answer = "no" =>
               /\ ~apt_started
               /\ ~grub_started
               /\ proc # "running"
               /\ pc = "returned"
               /\ result = "False"

\* the operator said yes and apt was started
C8_Witness ==
    /\ op = "cleanup"
    /\ ~policy.dry_run
    /\ kernels_to_remove # <<>>
    /\ answer = "yes"
    /\ apt_started
    /\ proc = "running"

\* C9: when apt exits 0 and update-grub then fails, remove_kernels does not
\* report success and reports an outcome (result value or severity) other
\* than the one it reports for a failed package removal.
C9_GrubFailureDistinct ==
    (pc = "returned" /\ grub_failed) =>
        /\ result # "True"
        /\ \A rc \in ExitCodes \ {0}, err \in StderrTexts :
               LET failed == RemoveKernelsFinish(rc, err, TRUE)
               IN Outcome(result, log) # Outcome(failed.result, failed.log)

\* C10: when dpkg -l fails the catalog is told apart from the catalog of a
\* system without kernels and the cleanup run does not report success.
C10_CatalogUnavailable ==
    (op = "cleanup" /\ ~list_ok) =>
        /\ catalog # list_installed_kernels(<<>>, TRUE)
        /\ pc = "returned" => result # "True"

\* C11: when uname failed (the running kernel could not be read) a cleanup
\* run computes no remove list and starts no removal.
C11_UnameFailureFatal ==
    (op = "cleanup" /\ current_kernel = EmptyStr) =>
        /\ kernels_to_remove = <<>>
        /\ ~apt_started

\* C12: a cleanup run given a policy with keep_latest < 0, keep_days < 0 or
\* min_kernels < 1 computes no keep list and no remove list and does not
\* report success.
C12_InvalidPolicyRejected ==
    (op = "cleanup"
        /\ (policy.keep_latest < 0 \/ policy.keep_days < 0 \/ policy.min_kernels < 1)) =>
        /\ keep_kernels = <<>>
        /\ kernels_to_remove = <<>>
        /\ result # "True"

\* what identify_kernels_to_remove returns for policy p on the system as it is
Rerun(p) ==
    identify_kernels_to_remove(inventory, list_ok, current_kernel, fallback_kernel, p)

\* the catalog versions a result does not put on its remove list
KeptOf(r) == SeqSet(r.catalog) \ SeqSet(Versions_of(r.remove))

\* C13: with the catalog, the install dates, the clock, the current and
\* fallback kernel and the other policy fields unchanged, every catalog
\* version kept by a cleanup run is also kept under any larger keep_latest and
\* under any larger min_kernels.
C13_MonotoneLatestMin ==
    Computed =>
        /\ \A n \in policy.keep_latest..MaxKeepLatest :
               (SeqSet(catalog) \ RemoveVersions)
                   \subseteq KeptOf(Rerun([policy EXCEPT !.keep_latest = n]))
        /\ \A m \in policy.min_kernels..MaxMinKernels :
               (SeqSet(catalog) \ RemoveVersions)
                   \subseteq KeptOf(Rerun([policy EXCEPT !.min_kernels = m]))

\* a run where a larger keep_latest and a larger min_kernels each keep a
\* version this run removes
C13_Witness ==
    /\ Computed
    /\ policy.keep_latest < MaxKeepLatest
    /\ policy.min_kernels < MaxMinKernels
    /\ RemoveVersions # {}
    /\ (SeqSet(catalog) \ RemoveVersions) # {}
    /\ KeptOf(Rerun([policy EXCEPT !.keep_latest = MaxKeepLatest]))
           # (SeqSet(catalog) \ RemoveVersions)
    /\ KeptOf(Rerun([policy EXCEPT !.min_kernels = MaxMinKernels]))
           # (SeqSet(catalog) \ RemoveVersions)

\* C14 as stated, for policies whose fields are all within their constraints
\* on a system whose running kernel was read: with everything else unchanged,
\* every catalog version kept by a cleanup run is also kept under any larger
\* keep_days.
C14_MonotoneDays ==
    (Computed /\ current_kernel # EmptyStr
        /\ policy.keep_latest >= 0 /\ policy.keep_days >= 0 /\ policy.min_kernels >= 1) =>
        \A d \in policy.keep_days..MaxKeepDays :
            (SeqSet(catalog) \ RemoveVersions)
                \subseteq KeptOf(Rerun([policy EXCEPT !.keep_days = d]))

\* the catalog versions the exclusion rules, keep_latest and keep_days of
\* policy p put on the keep list, the top-up left aside
ProtectedOf(p) ==
    SeqSet(catalog) \cap
        SeqSet(KeepBeforeTopUp(KernelsInfo(catalog, inventory, current_kernel,
                                           fallback_kernel),
                               p, fallback_kernel))

\* C14: with everything else unchanged, every catalog version that the
\* exclusion rules, keep_latest or keep_days keep in a cleanup run is also
\* kept under any larger keep_days; a version kept only by the min_kernels
\* top-up need not be.
C14_ProtectedStayKept ==
    Computed =>
        \A d \in policy.keep_days..MaxKeepDays :
            ProtectedOf(policy) \subseteq KeptOf(Rerun([policy EXCEPT !.keep_days = d]))

\* a run with keep_days off that protects a version, where turning keep_days
\* on keeps a further version
C14_Witness ==
    /\ Computed
    /\ policy.keep_days < MaxKeepDays
    /\ ProtectedOf(policy) # {}
    /\ RemoveVersions # {}
    /\ KeptOf(Rerun([policy EXCEPT !.keep_days = MaxKeepDays]))
           # (SeqSet(catalog) \ RemoveVersions)

\* C15: a cleanup run of a KernelManager whose construction read the running
\* kernel and a listing of two or more kernels yields the remove list and the
\* kept versions that a KernelManager constructed on the present inventory,
\* with the same running kernel, computes for the same policy: nothing the
\* manager retained from its construction or from earlier operations enters
\* the result.
C15_NoRetainedState ==
    (Computed /\ pc = "returned" /\ answer = "none" /\ list_ok
        /\ current_kernel # EmptyStr /\ fallback_kernel # current_kernel) =>
        LET fresh == identify_kernels_to_remove(
                         inventory, list_ok, current_kernel,
                         get_fallback_kernel(inventory, list_ok, current_kernel),
                         policy)
        IN /\ Versions_of(kernels_to_remove) = Versions_of(fresh.remove)
           /\ SeqSet(catalog) \ RemoveVersions = KeptOf(fresh)

\* C16: the `cleanup` command exits with a non-zero status exactly when the
\* listing of the kernels failed or remove_kernels, once it had started apt,
\* returned False.
C16_ExitStatusReflectsFailure ==
    (session = "exited" /\ op = "cleanup") =>
        (exit_status # 0 <=> (~list_ok \/ (apt_started /\ result = "False")))

\* C17: a run of the `cleanup` command never waits in a prompt and ends
\* without the operator having answered one.
C17_NoPrompt ==
    session \in {"cleanup", "exited"} => (pc # "confirm" /\ answer = "none")

\* C18: when the file is missing, is no JSON text, or is JSON without any of
\* the cleanup_policy fields, constructing the interface does not fail and
\* the policy built from the loaded configuration is KernelCleanupPolicy().
C18_CorruptStoreDefaults ==
    [][(session = "none" /\ session' # "none"
            /\ (store.kind \in {"missing", "garbage", "array"} \/ DOMAIN store.cp = {}))
        => (/\ session' # "crashed"
            /\ PolicyLoads(config')
            /\ LoadPolicy(config') = DefaultPolicy)]_vars

\* C19: once configure_cleanup_policy has returned a policy, the file holds
\* that policy's keep_latest, keep_days and min_kernels, and a run that has
\* loaded the file builds its policy from these values.
C19_EditsWrittenBack ==
    edit # NoEdit =>
        /\ store.kind = "object" /\ store.cp_kind = "dict" /\ store.cp = edit
        /\ (session \in {"interactive", "cleanup"} /\ PolicyLoads(config)) =>
               \A f \in Fields : LoadPolicy(config)[f] = edit[f]

\* the questions the operator has answered in this cleanup run: the only one
\* cleanup_old_kernels asks is "Proceed with kernel removal?" (line 412)
PromptsAnswered == IF answer = "none" THEN 0 ELSE 1

\* C20: when the remove list of a cleanup run holds the current or the
\* fallback kernel, apt is started only after a warning was logged or after
\* the operator answered a question besides the ordinary confirmation.
C20_ExtraAcknowledgement ==
    (op = "cleanup" /\ apt_started
        /\ \E i \in 1..Len(kernels_to_remove) :
               kernels_to_remove[i].is_current \/ kernels_to_remove[i].is_fallback) =>
        \/ PromptsAnswered > 1
        \/ \E j \in 1..Len(log) : log[j].level = "WARNING"

\* C21: whenever a cleanup run starts apt, every version on the list handed
\* to remove_kernels is installed at that moment: a kernel removed by other
\* means since the catalog was fetched is not on the list.
C21_FreshCatalogAtRemoval ==
    [][(op' = "cleanup" /\ ~apt_started /\ apt_started')
        => SeqSet(kernels') \subseteq DOMAIN inventory]_vars

\* C22: in a cleanup run whose listing succeeded and whose running kernel was
\* read, no version is on the keep list twice and the keep list holds at
\* least min_kernels distinct versions unless it holds the whole catalog.
C22_DistinctCountedOnce ==
    (Computed /\ list_ok /\ current_kernel # EmptyStr /\ InSeq(fallback_kernel, catalog)) =>
        /\ Cardinality(SeqSet(keep_kernels)) = Len(keep_kernels)
        /\ \/ Cardinality(SeqSet(keep_kernels)) >= policy.min_kernels
           \/ SeqSet(catalog) \subseteq SeqSet(keep_kernels)

\* C23: in every cleanup run of a KernelManager whose construction read the
\* running kernel and a listing of two or more kernels, the fallback kernel
\* the engine protects and flags is the second entry of the catalog the run
\* computes on, or the current kernel when that catalog has fewer than two
\* entries.
C23_FallbackIsSecondEntry ==
    (Computed /\ list_ok /\ current_kernel # EmptyStr
        /\ fallback_kernel # current_kernel) =>
        /\ fallback_kernel = IF Len(catalog) > 1 THEN catalog[2] ELSE current_kernel
        /\ \A i \in 1..Len(kernels_to_remove) :
               kernels_to_remove[i].is_fallback
                   <=> (Len(catalog) > 1 /\ kernels_to_remove[i].version = catalog[2])

\* the records of the catalog as identify_kernels_to_remove built them
CatalogInfo == KernelsInfo(catalog, inventory, current_kernel, fallback_kernel)

\* C25: with keep_days > 0 the days rule, taken by itself, protects a record
\* exactly when its install date is known and lies in the closed window
\* [now - keep_days, now].
C25_ClosedWindow ==
    (Computed /\ policy.keep_days > 0) =>
        \A i \in 1..Len(catalog) :
            LET k == CatalogInfo[i]
            IN InSeq(k.version, KeepRecent(<<>>, CatalogInfo, policy))
                   <=> /\ k.install_date.kind = "date"
                       /\ Now - policy.keep_days <= k.install_date.t
                       /\ k.install_date.t <= Now

\* C26: a package without a readable Install-Time gets the install date ""
\* and, for every keep_days > 0, its record is not added to keep by the days
\* rule: before the top-up it is on the keep list only if it is there with
\* the days rule switched off.
C26_UndatedNotProtected ==
    (Computed /\ policy.keep_days > 0) =>
        \A i \in 1..Len(catalog) :
            LET k == CatalogInfo[i]
            IN ~inventory[k.version].known =>
                   /\ k.install_date = EmptyDate
                   /\ ~InSeq(k.version, KeepRecent(<<>>, CatalogInfo, policy))
                   /\ InSeq(k.version, KeepBeforeTopUp(CatalogInfo, policy, fallback_kernel))
                          => InSeq(k.version,
                                   KeepBeforeTopUp(CatalogInfo,
                                                   [policy EXCEPT !.keep_days = 0],
                                                   fallback_kernel))

\* a run with keep_days > 0 that removes an undated kernel while the days
\* rule alone keeps a dated one
C26_Witness ==
    /\ Computed
    /\ policy.keep_days > 0
    /\ \E i, j \in 1..Len(catalog) :
           /\ ~inventory[catalog[i]].known
           /\ catalog[i] \in RemoveVersions
           /\ inventory[catalog[j]].known
           /\ InSeq(catalog[j], keep_kernels)
           /\ ~InSeq(catalog[j],
                     KeepBeforeTopUp(CatalogInfo, [policy EXCEPT !.keep_days = 0],
                                     fallback_kernel))
           /\ Len(keep_kernels) > policy.min_kernels

Pos(x, s) == CHOOSE i \in 1..Len(s) : s[i] = x

\* C28: the catalog holds every installed version exactly once, its sort keys
\* (the digit runs of the version) never increase from one entry to the next
\* under component-wise comparison, so 5.10 stands before 5.9, and entries
\* with equal keys stand in the order of the dpkg listing.
C28_NewestFirstStable ==
    (Computed /\ list_ok) =>
        /\ SeqSet(catalog) = DOMAIN inventory
        /\ Len(catalog) = Cardinality(DOMAIN inventory)
        /\ \A i, j \in 1..Len(catalog) :
               i < j =>
                   /\ ~LexLess(SortKey(catalog[i]), SortKey(catalog[j]))
                   /\ SortKey(catalog[i]) = SortKey(catalog[j]) =>
                          Pos(catalog[i], DpkgListing(inventory))
                              < Pos(catalog[j], DpkgListing(inventory))
        /\ (InSeq(V510, catalog) /\ InSeq(V59, catalog)) =>
               Pos(V510, catalog) < Pos(V59, catalog)

\* a listing with two versions of equal digits, 5.9 and a one-number version
C28_Witness ==
    /\ Computed /\ list_ok
    /\ {V510, V510g, V59, V5} \subseteq SeqSet(catalog)
    /\ Pos(V510, catalog) + 1 = Pos(V510g, catalog)

\* C24: while the apt child has not exited the progress task's completed
\* value is at most 90 in every state, the one between the two updates of a
\* loop iteration included, and it is 100 only once the child has exited.
C24_ProgressCapped ==
    /\ proc = "running" => completed <= ProgressCap
    /\ completed = ProgressTotal => proc = "exited"

\* C29: a remove_kernels call that entered its polling loop returns, given
\* that the child exits once it could write all of its output.
C29_RemovalReturns == (pc = "polling") ~> (pc = "returned")

\* C30: when remove_specific_kernel starts apt on the running kernel, the
\* operator has acknowledged the current-kernel warning and answered yes to
\* the removal prompt, with and without rich.
C30_CurrentKernelWarned ==
    (op = "remove_specific" /\ apt_started /\ current_kernel # EmptyStr
        /\ kernels = <<current_kernel>>) =>
        (warning = "acknowledged" /\ answer = "yes")

====
